---- MODULE Spec2Model ----
(***************************************************************************)
(* Model of the piece downloader of osrs-archive (src/src/downloader.rs): *)
(* Downloader::download_build and the phases it runs in sequence          *)
(* (generate_piece_urls, download_and_process_pieces, combine_piece_files,*)
(* extract_files_from_archive, cleanup_temporary_files).                  *)
(*                                                                         *)
(* The output directory is a map from file names to byte sequences.  A    *)
(* file operation takes effect when the await on it completes.  The       *)
(* futures of one batch are polled by try_join_all inside one task, so    *)
(* they interleave at their await points.                                 *)
(***************************************************************************)
EXTENDS Integers, Sequences, FiniteSets, TLC

(***************************************************************************)
(* Bounds of the model.                                                    *)
(***************************************************************************)
MaxPieces == 3      \* digests in metafile.pieces
MaxFiles == 2       \* descriptors in metafile.files
MaxSize == 2        \* MetafileEntry.size

(***************************************************************************)
(* Program constants.                                                      *)
(***************************************************************************)
MAX_CONCURRENT_DOWNLOADS == 8

Min(a, b) == IF a < b THEN a ELSE b

SeqsUpTo(S, n) == UNION {[1..k -> S] : k \in 0..n}

\* The decompressed payloads a response can carry: two of different lengths.
Payloads == {<<0>>, <<1, 0>>}

(***************************************************************************)
(* Sha256 + format!("{:x}"): the hex digest of a byte sequence.  The hash *)
(* is modelled collision free: the bytes are read as binary digits after  *)
(* a leading 1, and the number is printed.                                 *)
(***************************************************************************)
RECURSIVE Sha256(_)
Sha256(data) ==
    IF data = <<>> THEN 1
    ELSE 2 * Sha256(SubSeq(data, 1, Len(data) - 1)) + data[Len(data)]

\* The raw bytes of a digest: two bytes, the high one first.
DigestBytes(n) == <<n \div 256, n % 256>>

\* hex::encode, format!("{:x}"): two lowercase hex characters for a byte.
HexDigits ==
    <<"0", "1", "2", "3", "4", "5", "6", "7", "8", "9", "a", "b", "c", "d", "e", "f">>

RECURSIVE HexEncode(_)
HexEncode(bytes) ==
    IF bytes = <<>> THEN <<>>
    ELSE <<HexDigits[(Head(bytes) \div 16) + 1], HexDigits[(Head(bytes) % 16) + 1]>>
             \o HexEncode(Tail(bytes))

\* The string of a sequence of characters.
RECURSIVE Str(_)
Str(cs) == IF cs = <<>> THEN "" ELSE Head(cs) \o Str(Tail(cs))

Hex(n) == Str(HexEncode(DigestBytes(n)))

\* The digests a manifest can list (base64 of the raw digest, abstracted to
\* the raw digest).
Digests == {Sha256(p) : p \in Payloads}

(***************************************************************************)
(* The entries of the manifest's pieces.digests are strings.  An entry is  *)
(* the base64 of a digest (the digest stands for it), the empty string (0  *)
(* stands for it), or a string that is not base64 (-1 stands for it).      *)
(***************************************************************************)
ManifestEntries == Digests \cup {0, -1}

\* general_purpose::STANDARD.decode(digest) returns Ok
Base64Valid(entry) == entry >= 0

\* the bytes it returns
Base64Decode(entry) == IF entry = 0 THEN <<>> ELSE DigestBytes(entry)

(***************************************************************************)
(* File names under output_dir: stem and extension (Path::extension).     *)
(***************************************************************************)
Name(stem, ext) == [stem |-> stem, ext |-> ext]

\* generate_piece_urls + extract_filename_from_url: "<hex>.solidpiece"
PieceFileName(digest) == Name(Hex(digest), "solidpiece")

\* Url::path_segments().last() of a piece URL
ExtractFilenameFromUrl(url) == url.file

\* combine_piece_files: output_dir.join("combined_file")
CombinedPath == Name("combined_file", "")

\* verify_piece_checksum: strip_suffix(".solidpiece") of the last URL segment
ExpectedDigest(url) == url.stem

\* The names a manifest can give its output files: two ordinary names, the
\* name of the staging artifact, and the name of a piece file.
OutputNames ==
    {Name("a", ""), Name("b", ""), CombinedPath, PieceFileName(Sha256(<<0>>))}

Descriptors == [name : OutputNames, size : 0..MaxSize]

\* Content left in output_dir by an earlier attempt.
StaleBytes == <<7, 7>>
InitialDirs ==
    { <<>>,
      [p \in {PieceFileName(Sha256(<<0>>)), CombinedPath, Name("a", "")}
          |-> StaleBytes] }

VARIABLES
    pc,          \* position of download_build
    result,      \* what download_build returned: "none", "Ok" or the error
    pieces,      \* config.metafile.pieces
    files,       \* config.metafile.files, as passed to extract_files_from_archive
    piece_urls,  \* Vec<Url>
    chunk_start, \* index in piece_urls of the first URL of the current chunk
    tasks,       \* the futures of the current batch
    fs,          \* output_dir: file name -> bytes
    combine_i,   \* combine_piece_files: index of the next piece path
    file_i,      \* extract_files_from_archive: index of the next descriptor
    cursor,      \* extract_files_from_archive: read position of source_file
    pass,        \* how often reassembly and slicing were started in this run
    first_pass,  \* output_dir as the first pass of reassembly and slicing left it
    requests,    \* the piece files whose requests were issued, in order of issue
    main_pc,     \* position of main: "config", "download", "zip", "zip_loop",
                 \* "release", "end", "failed" or "panicked"
    impl,        \* "main": main.rs; "lib": file_ops.rs and github.rs
    verify_signature, \* what the run's configuration says about the signature
    token_signed,\* whether the signature of the configuration token is valid
    tree,        \* the entries of output_dir after the download, at every depth
    entries,     \* zip_directory: the read_dir entries not visited yet
    archive,     \* zip_directory: the entries written to the ZIP archive
    main_result, \* "none", "Ok", "Err" or "panic"
    latest,      \* what releases().get_latest() returns
    decision,    \* should_create_release: "none", "create", "skip" or "error"
    created      \* extract_files_from_archive: the files and directories it has
                 \* made, by the place the file system gives them

vars == <<pc, result, pieces, files, piece_urls, chunk_start, tasks, fs,
          combine_i, file_i, cursor, pass, first_pass, requests,
          main_pc, impl, verify_signature, token_signed, tree, entries, archive,
          main_result, latest, decision, created>>

\* What main does around download_build; download_build leaves it alone.
\* Where slicing puts its outputs is followed in SpecPaths alone.
publish == <<main_pc, impl, verify_signature, token_signed, tree, entries,
             archive, main_result, latest, decision, created>>

\* get_latest() has not been asked yet
NoRelease ==
    [st |-> "unasked", tag_same |-> FALSE, body |-> "none", assets_empty |-> TRUE]

\* main is in download(): nothing of the later steps has happened.
InDownload ==
    /\ main_pc = "download"
    /\ impl = "main"
    /\ verify_signature = FALSE
    /\ token_signed = TRUE
    /\ tree = {}
    /\ entries = {}
    /\ archive = {}
    /\ main_result = "none"
    /\ latest = NoRelease
    /\ decision = "none"
    /\ created = {}

\* download_build runs reassembly and slicing once; only SpecRerun changes these.
rerun == <<pass, first_pass>>

Exists(p) == p \in DOMAIN fs

\* fs with file p holding data (created if missing)
WithFile(f, p, data) == [q \in DOMAIN f \cup {p} |-> IF q = p THEN data ELSE f[q]]

\* fs without file p
WithoutFile(f, p) == [q \in DOMAIN f \ {p} |-> f[q]]

\* File::create: a new empty file, or the existing one truncated
Create(f, p) == WithFile(f, p, <<>>)

\* write_all at position 0 of an open file holding old
WriteAt0(old, data) ==
    IF Len(data) >= Len(old) THEN data
    ELSE data \o SubSeq(old, Len(data) + 1, Len(old))

\* Mutant: the error of a failing step is noted and download_build goes on.
FailIgnored(err) ==
    /\ pc' = pc
    /\ result' = err

\* Mutant: a failing step goes on to cleanup_temporary_files.
FailThenCleanup(err) ==
    /\ pc' = "cleanup"
    /\ result' = err

Fail(err) ==
    /\ pc' = "failed"
    /\ result' = err

Init ==
    /\ pc = "load_config"
    /\ result = "none"
    /\ pieces = <<>>
    /\ files = <<>>
    /\ piece_urls = <<>>
    /\ chunk_start = 1
    /\ tasks = <<>>
    /\ fs \in InitialDirs
    /\ combine_i = 1
    /\ file_i = 1
    /\ cursor = 0
    /\ pass = 1
    /\ first_pass = <<>>
    /\ requests = <<>>
    /\ InDownload

(***************************************************************************)
(* download_build: config.load_all()                                       *)
(***************************************************************************)
LoadConfig ==
    /\ pc = "load_config"
    /\ \/ /\ \E ps \in SeqsUpTo(ManifestEntries, MaxPieces) : pieces' = ps
          /\ pc' = "ensure_dir"
          /\ UNCHANGED result
       \/ /\ Fail("ConfigError")
          /\ UNCHANGED pieces
    /\ UNCHANGED <<files, piece_urls, chunk_start, tasks, fs, combine_i, file_i,
                   cursor,
                   rerun, requests, publish>>

(***************************************************************************)
(* ensure_output_directory                                                 *)
(***************************************************************************)
EnsureOutputDirectory ==
    /\ pc = "ensure_dir"
    /\ \/ pc' = "generate_urls" /\ UNCHANGED result
       \/ Fail("IoError")
    /\ UNCHANGED <<pieces, files, piece_urls, chunk_start, tasks, fs, combine_i,
                   file_i, cursor,
                   rerun, requests, publish>>

(***************************************************************************)
(* generate_piece_urls: one URL per digest, in manifest order              *)
(***************************************************************************)
BASE_DOWNLOAD_URL == "https://jagex.akamaized.net/direct6"

\* self.repo
Repo == "osrs"

\* digest_hex_str.get(0..2) is Some
HasPrefix(hex) == Len(hex) >= 2

\* The closure of generate_piece_urls returns Ok for the entry.
Locatable(entry) == Base64Valid(entry) /\ HasPrefix(HexEncode(Base64Decode(entry)))

\* Mutant: the directory is taken from the end of the hex string.
PieceUrlDirLast(entry) ==
    LET hex == HexEncode(Base64Decode(entry))
    IN [base |-> BASE_DOWNLOAD_URL, repo |-> Repo, pieces |-> "pieces",
        dir |-> Str(SubSeq(hex, Len(hex) - 1, Len(hex))),
        file |-> Name(Str(hex), "solidpiece")]

\* "{BASE_DOWNLOAD_URL}/{repo}/pieces/{hex[0..2]}/{hex}.solidpiece"
PieceUrl(entry) ==
    LET hex == HexEncode(Base64Decode(entry))
    IN [base |-> BASE_DOWNLOAD_URL, repo |-> Repo, pieces |-> "pieces",
        dir |-> Str(SubSeq(hex, 1, 2)),
        file |-> Name(Str(hex), "solidpiece")]

\* Mutant: the digests are sorted before the URLs are built.
PieceUrlsSorted(ps) ==
    LET sorted == SortSeq(ps, LAMBDA x, y : x < y)
    IN [i \in 1..Len(ps) |-> PieceUrl(sorted[i])]

PieceUrls(ps) == [i \in 1..Len(ps) |-> PieceUrl(ps[i])]

\* collect::<Result<Vec<Url>>>(): Err when the closure fails for an entry
GeneratePieceUrls ==
    /\ pc = "generate_urls"
    /\ IF \A i \in 1..Len(pieces) : Locatable(pieces[i])
       THEN /\ piece_urls' = PieceUrls(pieces)
            /\ pc' = "fetch"
            /\ UNCHANGED result
       ELSE /\ Fail("DigestDecodeError")
            /\ UNCHANGED piece_urls
    /\ UNCHANGED <<pieces, files, chunk_start, tasks, fs, combine_i,
                   file_i, cursor,
                   rerun, requests, publish>>

(***************************************************************************)
(* download_and_process_pieces: piece_urls.chunks(MAX_CONCURRENT_DOWNLOADS)*)
(* Building the futures of a chunk and polling try_join_all the first time *)
(* runs every future up to its send().await: all requests are issued.     *)
(***************************************************************************)
\* Mutant: one chunk holds every URL that is left.
ChunkLenAll == Len(piece_urls) - chunk_start + 1

ChunkLen == Min(MAX_CONCURRENT_DOWNLOADS, Len(piece_urls) - chunk_start + 1)

\* Mutant: a piece whose file is already in output_dir is not fetched again.
NewTaskUnlessStored(url) ==
    [url |-> url, st |-> IF Exists(url) THEN "ok" ELSE "send", data |-> <<>>,
     detached |-> FALSE]

NewTask(url) == [url |-> url, st |-> "send", data |-> <<>>, detached |-> FALSE]

StartBatch ==
    /\ pc = "fetch"
    /\ tasks = <<>>
    /\ chunk_start <= Len(piece_urls)
    /\ tasks' = [i \in 1..ChunkLen |-> NewTask(ExtractFilenameFromUrl(piece_urls[chunk_start + i - 1]))]
    /\ requests' = requests \o [i \in 1..ChunkLen |-> tasks'[i].url]
    /\ UNCHANGED <<pc, result, pieces, files, piece_urls, chunk_start, fs,
                   combine_i, file_i, cursor,
                   rerun, publish>>

\* The positions of a future in which it has not returned yet.
InFlight == {"send", "remove", "create", "write"}

(***************************************************************************)
(* try_join_all: the first future that returns Err ends the join at once;  *)
(* the other futures are dropped where they are, and the ? operators carry *)
(* the error out of download_and_process_pieces and download_build.        *)
(***************************************************************************)
\* Mutant: the error is kept until the other futures have finished.
TaskFailsJoinLater(i, err) ==
    /\ tasks' = [tasks EXCEPT ![i].st = "err"]
    /\ UNCHANGED <<pc, result>>

TaskFails(i, err) ==
    /\ tasks' = [tasks EXCEPT ![i].st = "err"]
    /\ Fail(err)

(***************************************************************************)
(* download_and_process_single_piece from http_client.get(url).send()      *)
(* .await to the first await of write_piece_to_file: the status check,     *)
(* response.bytes().await, decompress_piece_data, and file_path.exists(),  *)
(* which decides whether remove_file is awaited before File::create.       *)
(* The errors, in the order of the code: send() ("NetworkError"), the      *)
(* status, bytes() ("BodyReadError"), a body of fewer than 6 bytes         *)
(* ("ShortBodyError"), the gzip decoder ("DecompressionError").            *)
(* Nothing in between reads or writes output_dir.                          *)
(***************************************************************************)
\* Mutant: the piece file is removed as soon as the response is there.
StoreResponseRemoved(f, t) == WithoutFile(f, t.url)

\* output_dir when the future has got its response, checked the status, read
\* and decompressed the body: none of these touches a file.
StoreAfterResponse(f, t) == f

\* The bodies the server can send for an address: the representative
\* payloads, and the payload the address names.
Bodies(url) ==
    Payloads \cup {p \in SeqsUpTo({0, 1}, 3) : Hex(Sha256(p)) = ExpectedDigest(url)}

TaskResponse(i) ==
    /\ pc = "fetch"
    /\ i \in DOMAIN tasks
    /\ tasks[i].st = "send"
    /\ \/ /\ \E data \in Bodies(tasks[i].url) :
                tasks' = [tasks EXCEPT
                            ![i].st = IF Exists(tasks[i].url) THEN "remove"
                                      ELSE "create",
                            ![i].data = data]
          /\ UNCHANGED <<pc, result>>
       \/ TaskFails(i, "NetworkError")
       \/ TaskFails(i, "HttpStatusError")
       \/ TaskFails(i, "BodyReadError")
       \/ TaskFails(i, "ShortBodyError")
       \/ TaskFails(i, "DecompressionError")
    /\ fs' = StoreAfterResponse(fs, tasks[i])
    /\ UNCHANGED <<pieces, files, piece_urls, chunk_start, combine_i, file_i,
                   cursor,
                   rerun, requests, publish>>

(***************************************************************************)
(* write_piece_to_file: tokio::fs::remove_file(&file_path).await           *)
(* Futures that hold the removed file open keep writing to it, but the     *)
(* file no longer has a name.                                              *)
(***************************************************************************)
Detach(ts, p) ==
    [j \in DOMAIN ts |->
        IF ts[j].url = p /\ ts[j].st = "write"
        THEN [ts[j] EXCEPT !.detached = TRUE] ELSE ts[j]]

TaskRemove(i) ==
    /\ pc = "fetch"
    /\ i \in DOMAIN tasks
    /\ tasks[i].st = "remove"
    /\ IF Exists(tasks[i].url)
       THEN /\ fs' = WithoutFile(fs, tasks[i].url)
            /\ tasks' = [Detach(tasks, tasks[i].url) EXCEPT ![i].st = "create"]
            /\ UNCHANGED <<pc, result>>
       ELSE /\ TaskFails(i, "IoError")
            /\ UNCHANGED fs
    /\ UNCHANGED <<pieces, files, piece_urls, chunk_start, combine_i, file_i,
                   cursor,
                   rerun, requests, publish>>

(***************************************************************************)
(* write_piece_to_file: File::create(&file_path).await                     *)
(***************************************************************************)
TaskCreate(i) ==
    /\ pc = "fetch"
    /\ i \in DOMAIN tasks
    /\ tasks[i].st = "create"
    /\ fs' = Create(fs, tasks[i].url)
    /\ tasks' = [tasks EXCEPT ![i].st = "write"]
    /\ UNCHANGED <<pc, result, pieces, files, piece_urls, chunk_start, combine_i,
                   file_i, cursor,
                   rerun, requests, publish>>

(***************************************************************************)
(* write_piece_to_file: file.write_all(data).await, then the call of       *)
(* verify_piece_checksum that follows it without an await.                 *)
(***************************************************************************)
\* Mutant: the bytes never reach the file.
NotWritten(f, t) == f

Written(f, t) ==
    IF t.detached THEN f ELSE WithFile(f, t.url, WriteAt0(f[t.url], t.data))

\* Mutant: the comparison is left out.
ChecksumNotCompared(data, url) == TRUE

\* verify_piece_checksum
ChecksumOk(data, url) == Hex(Sha256(data)) = ExpectedDigest(url)

TaskWrite(i) ==
    /\ pc = "fetch"
    /\ i \in DOMAIN tasks
    /\ tasks[i].st = "write"
    /\ fs' = Written(fs, tasks[i])
    /\ IF ChecksumOk(tasks[i].data, tasks[i].url)
       THEN /\ tasks' = [tasks EXCEPT ![i].st = "ok"]
            /\ UNCHANGED <<pc, result>>
       ELSE TaskFails(i, "ChecksumMismatch")
    /\ UNCHANGED <<pieces, files, piece_urls, chunk_start, combine_i, file_i,
                   cursor,
                   rerun, requests, publish>>

(***************************************************************************)
(* A file operation that a dropped future had handed to the blocking pool  *)
(* is still carried out.                                                   *)
(***************************************************************************)
DroppedOp(i) ==
    /\ pc = "failed"
    /\ i \in DOMAIN tasks
    /\ tasks[i].st \in {"remove", "create", "write"}
    /\ fs' = CASE tasks[i].st = "remove" -> WithoutFile(fs, tasks[i].url)
               [] tasks[i].st = "create" -> Create(fs, tasks[i].url)
               [] tasks[i].st = "write" -> Written(fs, tasks[i])
    /\ tasks' = [(IF tasks[i].st = "remove" THEN Detach(tasks, tasks[i].url)
                  ELSE tasks) EXCEPT ![i].st = "dropped"]
    /\ UNCHANGED <<pc, result, pieces, files, piece_urls, chunk_start, combine_i,
                   file_i, cursor,
                   rerun, requests, publish>>

(***************************************************************************)
(* try_join_all returns Ok when every future of the chunk returned Ok; the *)
(* for loop goes on to the next chunk.                                     *)
(***************************************************************************)
\* Mutant: the join never returns, whatever the futures did.
BatchDoneNever(ts) == FALSE

\* Mutant: the join returns as soon as one future has returned Ok.
BatchDoneAny(ts) == \E i \in DOMAIN ts : ts[i].st = "ok"

BatchDone(ts) == \A i \in DOMAIN ts : ts[i].st = "ok"

\* Mutant: the loop takes the same chunk again.
SameChunkStart == chunk_start

\* chunks(): the next chunk starts behind the last URL of this one
NextChunkStart == chunk_start + Len(tasks)

JoinBatch ==
    /\ pc = "fetch"
    /\ tasks # <<>>
    /\ BatchDone(tasks)
    /\ chunk_start' = NextChunkStart
    /\ tasks' = <<>>
    /\ UNCHANGED <<pc, result, pieces, files, piece_urls, fs, combine_i, file_i,
                   cursor,
                   rerun, requests, publish>>

\* download_and_process_pieces returns Ok(()) after the last chunk
FetchDone ==
    /\ pc = "fetch"
    /\ tasks = <<>>
    /\ chunk_start > Len(piece_urls)
    /\ pc' = "combine"
    /\ UNCHANGED <<result, pieces, files, piece_urls, chunk_start, tasks, fs,
                   combine_i, file_i, cursor,
                   rerun, requests, publish>>

(***************************************************************************)
(* combine_piece_files: remove an existing combined file, File::create     *)
(***************************************************************************)
\* Mutant: an existing combined file is kept and appended to.
KeptCombined(f) == IF CombinedPath \in DOMAIN f THEN f ELSE Create(f, CombinedPath)

FreshCombined(f) == Create(WithoutFile(f, CombinedPath), CombinedPath)

CombineCreate ==
    /\ pc = "combine"
    /\ \/ /\ fs' = FreshCombined(fs)
          /\ combine_i' = 1
          /\ pc' = "combine_loop"
          /\ UNCHANGED result
       \/ /\ Fail("IoError")
          /\ UNCHANGED <<fs, combine_i>>
    /\ UNCHANGED <<pieces, files, piece_urls, chunk_start, tasks, file_i, cursor,
                   rerun, requests, publish>>

\* pieces_paths: the piece file of every URL, in the order of piece_urls
PiecesPaths(urls) == [i \in 1..Len(urls) |-> ExtractFilenameFromUrl(urls[i])]

(***************************************************************************)
(* combine_piece_files, one turn of the loop: open the piece file, read it *)
(* to the end and write its bytes at the end of the combined file.         *)
(***************************************************************************)
CombinePiece ==
    /\ pc = "combine_loop"
    /\ combine_i <= Len(piece_urls)
    /\ LET path == PiecesPaths(piece_urls)[combine_i] IN
       \/ /\ Exists(path)
          /\ fs' = WithFile(fs, CombinedPath, fs[CombinedPath] \o fs[path])
          /\ combine_i' = combine_i + 1
          /\ UNCHANGED <<pc, result>>
       \/ /\ Fail("IoError")
          /\ UNCHANGED <<fs, combine_i>>
    /\ UNCHANGED <<pieces, files, piece_urls, chunk_start, tasks, file_i, cursor,
                   rerun, requests, publish>>

\* combine_piece_files: sync_all, drop, Ok(combined_path)
\* Mutant: the loop over pieces_paths is left after its first turn.
FirstCombined == combine_i > 1 \/ piece_urls = <<>>

\* the for loop over pieces_paths has ended
AllCombined == combine_i > Len(piece_urls)

CombineSync ==
    /\ pc = "combine_loop"
    /\ AllCombined
    /\ pc' = "extract"
    /\ UNCHANGED <<result, pieces, files, piece_urls, chunk_start, tasks, fs,
                   combine_i, file_i, cursor,
                   rerun, requests, publish>>

(***************************************************************************)
(* extract_files_from_archive: File::open(combined_path).  file_list is    *)
(* config.metafile.files, which nothing reads before this call.            *)
(***************************************************************************)
ExtractOpen ==
    /\ pc = "extract"
    /\ \/ /\ Exists(CombinedPath)
          /\ \E file_list \in SeqsUpTo(Descriptors, MaxFiles) :
                /\ pass = 1 \/ file_list = files
                /\ files' = file_list
          /\ file_i' = 1
          /\ cursor' = 0
          /\ pc' = "extract_loop"
          /\ UNCHANGED result
       \/ /\ Fail("IoError")
          /\ UNCHANGED <<files, file_i, cursor>>
    /\ UNCHANGED <<pieces, piece_urls, chunk_start, tasks, fs, combine_i,
                   rerun, requests, publish>>

\* Mutant: a read that leaves bytes of the file unread fails.
CanReadNoRest(stream, pos, size) == pos + size = Len(stream)

\* Mutant: a read that fills the buffer exactly to the end of the file fails.
CanReadStrict(stream, pos, size) == size = 0 \/ pos + size < Len(stream)

\* read_exact of size bytes at position pos of a file holding stream
CanRead(stream, pos, size) == size = 0 \/ pos + size <= Len(stream)

\* Mutant: every descriptor is read from the start of the stream.
ReadExactFromStart(stream, pos, size) == SubSeq(stream, 1, size)

ReadExact(stream, pos, size) == SubSeq(stream, pos + 1, pos + size)

\* Mutant: the read does not move the position of source_file.
PositionKept(pos, size) == pos

\* The position of source_file after read_exact of size bytes at pos
PositionAfter(pos, size) == pos + size

\* Mutant: the output file is opened for appending.
AppendOutput(f, name, bytes) ==
    WithFile(f, name, (IF name \in DOMAIN f THEN f[name] ELSE <<>>) \o bytes)

\* File::create(&output_file_path) and write_all(&file_output)
WriteOutput(f, name, bytes) == WithFile(f, name, bytes)

(***************************************************************************)
(* extract_files_from_archive, one turn of the loop: read_exact of `size`  *)
(* bytes from source_file, then File::create and write_all of the output   *)
(* file.                                                                   *)
(***************************************************************************)
ExtractFile ==
    /\ pc = "extract_loop"
    /\ file_i <= Len(files)
    /\ LET file == files[file_i]
           stream == fs[CombinedPath]
       IN IF CanRead(stream, cursor, file.size)
          THEN \/ /\ fs' = WriteOutput(fs, file.name,
                                       ReadExact(stream, cursor, file.size))
                  /\ cursor' = PositionAfter(cursor, file.size)
                  /\ file_i' = file_i + 1
                  /\ UNCHANGED <<pc, result>>
               \/ /\ Fail("IoError")
                  /\ cursor' = PositionAfter(cursor, file.size)
                  /\ UNCHANGED <<fs, file_i>>
          ELSE /\ Fail("TruncatedStreamError")
               /\ cursor' = IF cursor < Len(stream) THEN Len(stream) ELSE cursor
               /\ UNCHANGED <<fs, file_i>>
    /\ UNCHANGED <<pieces, files, piece_urls, chunk_start, tasks, combine_i,
                   rerun, requests, publish>>

\* extract_files_from_archive returns Ok(()) after the last descriptor
ExtractDone ==
    /\ pc = "extract_loop"
    /\ file_i > Len(files)
    /\ pc' = "cleanup"
    /\ UNCHANGED <<result, pieces, files, piece_urls, chunk_start, tasks, fs,
                   combine_i, file_i, cursor,
                   rerun, requests, publish>>

(***************************************************************************)
(* cleanup_temporary_files, one turn of the loop over read_dir(output_dir):*)
(* an entry whose extension is "solidpiece" is removed.  read_dir yields   *)
(* the entries in no particular order.                                     *)
(***************************************************************************)
\* Mutant: the loop removes nothing.
NoEntries(f) == {}

SolidpieceEntries(f) == {p \in DOMAIN f : p.ext = "solidpiece"}

\* Mutant: a failing fs::remove_file is logged and cleanup returns Ok(()).
CleanupFailsLogged ==
    /\ pc' = "done"
    /\ result' = "Ok"

\* fs::remove_file(..)?: the error leaves cleanup_temporary_files, and the ?
\* after its call leaves download_build.
CleanupFails == Fail("CleanupError")

CleanupEntry ==
    /\ pc = "cleanup"
    /\ \E path \in SolidpieceEntries(fs) :
          \/ /\ fs' = WithoutFile(fs, path)
             /\ UNCHANGED <<pc, result>>
          \/ /\ CleanupFails
             /\ UNCHANGED fs
    /\ UNCHANGED <<pieces, files, piece_urls, chunk_start, tasks, combine_i,
                   file_i, cursor,
                   rerun, requests, publish>>

(***************************************************************************)
(* cleanup_temporary_files after the loop: remove the combined file if it  *)
(* exists, Ok(()); download_build then returns Ok(()).                     *)
(***************************************************************************)
CleanupCombined ==
    /\ pc = "cleanup"
    /\ SolidpieceEntries(fs) = {}
    /\ \/ /\ fs' = WithoutFile(fs, CombinedPath)
          /\ pc' = "done"
          /\ result' = "Ok"
       \/ /\ Exists(CombinedPath)
          /\ CleanupFails
          /\ UNCHANGED fs
    /\ UNCHANGED <<pieces, files, piece_urls, chunk_start, tasks, combine_i,
                   file_i, cursor,
                   rerun, requests, publish>>

TaskStep(i) ==
    \/ TaskResponse(i)
    \/ TaskRemove(i)
    \/ TaskCreate(i)
    \/ TaskWrite(i)
    \/ DroppedOp(i)

Next ==
    \/ LoadConfig
    \/ EnsureOutputDirectory
    \/ GeneratePieceUrls
    \/ StartBatch
    \/ \E i \in 1..MAX_CONCURRENT_DOWNLOADS : TaskStep(i)
    \/ JoinBatch
    \/ FetchDone
    \/ CombineCreate
    \/ CombinePiece
    \/ CombineSync
    \/ ExtractOpen
    \/ ExtractFile
    \/ ExtractDone
    \/ CleanupEntry
    \/ CleanupCombined

Spec == Init /\ [][Next]_vars

(***************************************************************************)
(* The same run under its scheduling: download_build is one async fn whose *)
(* statements run one after another, the runtime polls every spawned       *)
(* future that can make progress, and the client built in new() gives      *)
(* every request the timeout HTTP_TIMEOUT_SECS, so a request that gets no  *)
(* answer ends as a send error.  A step that can be taken is taken.        *)
(***************************************************************************)
SpecLive == Init /\ [][Next]_vars /\ WF_vars(Next)

(***************************************************************************)
(* Reassembly and slicing run a second time over the piece store the first *)
(* pass left, with the same manifest.                                      *)
(***************************************************************************)
Rerun ==
    /\ pc = "cleanup"
    /\ pass = 1
    /\ pass' = 2
    /\ first_pass' = fs
    /\ pc' = "combine"
    /\ UNCHANGED <<result, pieces, files, piece_urls, chunk_start, tasks, fs,
                   combine_i, file_i, cursor, requests, publish>>

\* The piece store a successful fetch phase leaves: every piece file of the
\* manifest holds its verified payload.
VerifiedStore(ps, dir) ==
    [p \in DOMAIN dir \cup {PieceFileName(ps[i]) : i \in 1..Len(ps)} |->
        IF \E i \in 1..Len(ps) : p = PieceFileName(ps[i])
        THEN (CHOOSE data \in Payloads : ChecksumOk(data, p)) ELSE dir[p]]

InitRerun ==
    /\ pc = "combine"
    /\ result = "none"
    /\ pieces \in SeqsUpTo(Digests, MaxPieces)
    /\ files = <<>>
    /\ piece_urls = PieceUrls(pieces)
    /\ chunk_start = Len(pieces) + 1
    /\ tasks = <<>>
    /\ \E dir \in InitialDirs : fs = VerifiedStore(pieces, dir)
    /\ combine_i = 1
    /\ file_i = 1
    /\ cursor = 0
    /\ pass = 1
    /\ first_pass = <<>>
    /\ requests = PiecesPaths(piece_urls)
    /\ InDownload

NextRerun ==
    \/ CombineCreate
    \/ CombinePiece
    \/ CombineSync
    \/ ExtractOpen
    \/ ExtractFile
    \/ ExtractDone
    \/ Rerun

SpecRerun == InitRerun /\ [][NextRerun]_vars

(***************************************************************************)
(* A manifest of more pieces than one chunk holds, fetched from a server   *)
(* that holds the right body of every piece: download_build after          *)
(* generate_piece_urls, in an empty output directory.  The one response    *)
(* that can be an error is the response for the last address of a chunk.   *)
(***************************************************************************)
BatchManifest == [i \in 1..(MAX_CONCURRENT_DOWNLOADS + 1) |-> i + 1]

InitBatch ==
    /\ pc = "fetch"
    /\ result = "none"
    /\ pieces = BatchManifest
    /\ files = <<>>
    /\ piece_urls = PieceUrls(pieces)
    /\ chunk_start = 1
    /\ tasks = <<>>
    /\ fs = <<>>
    /\ combine_i = 1
    /\ file_i = 1
    /\ cursor = 0
    /\ pass = 1
    /\ first_pass = <<>>
    /\ requests = <<>>
    /\ InDownload

RightBodyOrStatus(i) ==
    IF tasks'[i].st = "err"
    THEN i = Len(tasks) /\ result' = "HttpStatusError"
    ELSE ChecksumOk(tasks'[i].data, tasks'[i].url)

NextBatch ==
    \/ StartBatch
    \/ \E i \in 1..MAX_CONCURRENT_DOWNLOADS :
          \/ TaskResponse(i) /\ RightBodyOrStatus(i)
          \/ TaskCreate(i)
          \/ TaskWrite(i)
          \/ DroppedOp(i)
    \/ JoinBatch
    \/ FetchDone

SpecBatch == InitBatch /\ [][NextBatch]_vars

(***************************************************************************)
(* What main does around download_build: the configuration token is        *)
(* decoded, the output directory is compressed into the artifact, and the  *)
(* latest release decides whether a release is to be created.  main.rs has *)
(* its own zip_directory and should_create_release; file_ops.rs and        *)
(* github.rs hold the library's.  download_build itself is one step here.  *)
(***************************************************************************)
ARTIFACT_NAME == "osrs-win.production.zip"

\* A directory entry: its path relative to output_dir, what it is, what
\* Path::extension gives ("" for None) and the directory it lies in ("" for
\* output_dir itself).
Entry(name, kind, ext, parent) ==
    [name |-> name, kind |-> kind, ext |-> ext, parent |-> parent]

ArtifactEntry == Entry(ARTIFACT_NAME, "file", "zip", "")

TreeEntries ==
    { Entry("a.txt", "file", "txt", ""),
      Entry("LICENSE", "file", "", ""),
      Entry("old.zip", "file", "zip", ""),
      Entry("OLD.ZIP", "file", "ZIP", ""),
      Entry("bin", "dir", "", ""),
      Entry("bin/c.txt", "file", "txt", "bin"),
      Entry("res.d", "dir", "d", ""),
      Entry("res.d/e.txt", "file", "txt", "res.d") }

\* The trees a download can leave: the manifest names the outputs, which may
\* lie in subdirectories (create_dir_all of the parent).
Trees ==
    { t \in SUBSET TreeEntries :
        \A e \in t : e.parent # "" =>
            \E d \in t : d.name = e.parent /\ d.kind = "dir" }

\* Config::get_config_json: validation.insecure_disable_signature_validation()
SignatureValidated == FALSE

\* jsonwebtoken::decode under that validation
TokenAccepted(signed) == signed \/ ~SignatureValidated

InitPublish ==
    /\ pc = "load_config"
    /\ result = "none"
    /\ pieces = <<>>
    /\ files = <<>>
    /\ piece_urls = <<>>
    /\ chunk_start = 1
    /\ tasks = <<>>
    /\ fs = <<>>
    /\ combine_i = 1
    /\ file_i = 1
    /\ cursor = 0
    /\ pass = 1
    /\ first_pass = <<>>
    /\ requests = <<>>
    /\ main_pc = "config"
    /\ impl \in {"main", "lib"}
    /\ verify_signature \in BOOLEAN
    /\ token_signed \in BOOLEAN
    /\ tree \in Trees
    /\ entries = {}
    /\ archive = {}
    /\ main_result = "none"
    /\ latest = NoRelease
    /\ decision = "none"
    /\ created = {}

download == <<pc, result, pieces, files, piece_urls, chunk_start, tasks, fs,
              combine_i, file_i, cursor, pass, first_pass, requests>>

MainFail ==
    /\ main_pc' = "failed"
    /\ main_result' = "Err"

(***************************************************************************)
(* Config::get_config_json: the response is decoded as a token whose       *)
(* signature is not looked at; a status that is no success is an error.    *)
(***************************************************************************)
GetConfigJson ==
    /\ main_pc = "config"
    /\ \/ /\ TokenAccepted(token_signed)
          /\ main_pc' = "download"
          /\ UNCHANGED main_result
       \/ MainFail
    /\ UNCHANGED <<download, created, impl, verify_signature, token_signed, tree,
                   entries, archive, latest, decision>>

\* download_files: download(...).await?
DownloadBuild ==
    /\ main_pc = "download"
    /\ \/ main_pc' = "zip" /\ UNCHANGED main_result
       \/ MainFail
    /\ UNCHANGED <<download, created, impl, verify_signature, token_signed, tree,
                   entries, archive, latest, decision>>

\* fs::read_dir: the entries of the directory itself, none of a subdirectory
ReadDir(t) == { e \in t : e.parent = "" }

\* OsStr::eq_ignore_ascii_case
EqIgnoreAsciiCase(ext, word) ==
    \/ ext = word
    \/ ext = "ZIP" /\ word = "zip"

\* main.rs: path.extension().unwrap() panics on None
ExtensionPanics(e) == impl = "main" /\ e.ext = ""

\* the entry is passed over as a ZIP file
IsZip(e) ==
    IF impl = "main" THEN e.ext = "zip"
    ELSE e.ext # "" /\ EqIgnoreAsciiCase(e.ext, "zip")

\* start_file + io::copy for a file, add_directory for a directory: one
\* archive entry under the entry's own relative path
ZipAdd(a, e) == a \cup {[name |-> e.name, kind |-> e.kind]}

(***************************************************************************)
(* zip_directory(output_dir, output_dir.join(artifact_name)): File::create *)
(* puts the artifact into the directory before read_dir lists it.          *)
(***************************************************************************)
ZipCreate ==
    /\ main_pc = "zip"
    /\ \/ /\ tree' = tree \cup {ArtifactEntry}
          /\ entries' = ReadDir(tree')
          /\ main_pc' = "zip_loop"
          /\ UNCHANGED main_result
       \/ MainFail /\ UNCHANGED <<tree, entries>>
    /\ archive' = {}
    /\ UNCHANGED <<download, created, impl, verify_signature, token_signed, latest,
                   decision>>

\* One turn of the for loop; read_dir gives the entries in any order.
ZipEntry ==
    /\ main_pc = "zip_loop"
    /\ \E e \in entries :
          /\ entries' = entries \ {e}
          /\ IF ExtensionPanics(e)
             THEN /\ main_pc' = "panicked"
                  /\ main_result' = "panic"
                  /\ UNCHANGED archive
             ELSE IF IsZip(e)
             THEN UNCHANGED <<main_pc, main_result, archive>>
             ELSE \/ /\ archive' = ZipAdd(archive, e)
                     /\ UNCHANGED <<main_pc, main_result>>
                  \/ MainFail /\ UNCHANGED archive
    /\ UNCHANGED <<download, created, impl, verify_signature, token_signed, tree,
                   latest, decision>>

\* zip.finish()
ZipFinish ==
    /\ main_pc = "zip_loop"
    /\ entries = {}
    /\ \/ main_pc' = "release" /\ UNCHANGED main_result
       \/ MainFail
    /\ UNCHANGED <<download, created, impl, verify_signature, token_signed, tree,
                   entries, archive, latest, decision>>

\* What get_latest() can return: an error, or a release whose tag is or is
\* not the current version, whose body is missing ("none"), contains the
\* current checksum ("with") or does not ("without"), with or without assets.
Releases ==
    [st : {"ok"}, tag_same : BOOLEAN, body : {"none", "with", "without"},
     assets_empty : BOOLEAN]
        \cup {[st |-> "err", tag_same |-> FALSE, body |-> "none",
               assets_empty |-> TRUE]}

\* main.rs should_create_release; second is what the second get_latest()
\* returns, asked for the assets
ShouldCreateMain(rel, second) ==
    IF rel.st = "err" THEN "create"
    ELSE IF ~rel.tag_same THEN "create"
    ELSE IF rel.body = "with" THEN "skip"
    ELSE IF second.st = "err" THEN "error"
    ELSE IF second.assets_empty THEN "create"
    ELSE "create"

\* github.rs should_create_release
ShouldCreateLib(rel) ==
    IF rel.st = "err" THEN "create"
    ELSE IF ~rel.tag_same THEN "create"
    ELSE IF rel.body = "with" THEN "skip"
    ELSE IF rel.assets_empty THEN "create"
    ELSE "skip"

ShouldCreateRelease ==
    /\ main_pc = "release"
    /\ \E rel \in Releases, second \in Releases :
          /\ latest' = rel
          /\ decision' = IF impl = "main" THEN ShouldCreateMain(rel, second)
                         ELSE ShouldCreateLib(rel)
    /\ IF decision' = "error"
       THEN MainFail
       ELSE main_pc' = "end" /\ main_result' = "Ok"
    /\ UNCHANGED <<download, created, impl, verify_signature, token_signed, tree,
                   entries, archive>>

NextPublish ==
    \/ GetConfigJson
    \/ DownloadBuild
    \/ ZipCreate
    \/ ZipEntry
    \/ ZipFinish
    \/ ShouldCreateRelease

SpecPublish == InitPublish /\ [][NextPublish]_vars

(***************************************************************************)
(* Where extract_files_from_archive puts its outputs.  A path is a list of *)
(* components, taken from the root when it is absolute and from the        *)
(* working directory of the process when it is not.  The bytes of the      *)
(* outputs are followed in Spec; here only their places are.               *)
(***************************************************************************)
Path(abs, segs) == [abs |-> abs, segs |-> segs]

\* the working directory of the process
Cwd == <<"work">>

\* --output-dir as main passes it on
OutputDir == Path(FALSE, <<"downloads">>)

\* PathBuf::join: an absolute argument replaces the path it is joined to
Join(base, p) ==
    IF p.abs THEN p ELSE Path(base.abs, base.segs \o p.segs)

\* Path::parent: the path without its last component
Parent(p) == Path(p.abs, SubSeq(p.segs, 1, Len(p.segs) - 1))

\* The directory reached from `at` by the components segs: ".." goes one
\* directory up, and stays at the root.
RECURSIVE Walk(_, _)
Walk(at, segs) ==
    IF segs = <<>> THEN at
    ELSE Walk(IF Head(segs) = ".."
              THEN SubSeq(at, 1, Len(at) - 1)
              ELSE Append(at, Head(segs)),
              Tail(segs))

\* The place the file system gives a path
Resolve(p) == Walk(IF p.abs THEN <<>> ELSE Cwd, p.segs)

\* The names a manifest can give its outputs: plain names, names in
\* subdirectories, names with parent-directory components, an absolute name.
DescriptorNames ==
    { Path(FALSE, <<"a.txt">>),
      Path(FALSE, <<"LICENSE">>),
      Path(FALSE, <<"bin", "c.txt">>),
      Path(FALSE, <<"res.d", "e.txt">>),
      Path(FALSE, <<"..", "x">>),
      Path(FALSE, <<"bin", "..", "..", "y">>),
      Path(TRUE, <<"etc", "z">>) }

\* The directories that are there before slicing: ensure_output_directory
\* has made output_dir.
ExistingDirs == {<<>>, Cwd, Resolve(OutputDir), <<"etc">>}

\* create_dir_all(parent): parent and every ancestor of it that is missing
DirsMade(parent) ==
    {Resolve(Path(parent.abs, SubSeq(parent.segs, 1, k))) :
        k \in 1..Len(parent.segs)} \ ExistingDirs

\* One turn of the loop: output_dir.join(file_name), create_dir_all of its
\* parent, File::create of the output.
OutputPlaces(name) ==
    LET output_file_path == Join(OutputDir, name)
    IN {[path |-> d, kind |-> "dir"] : d \in DirsMade(Parent(output_file_path))}
           \cup {[path |-> Resolve(output_file_path), kind |-> "file"]}

InitPaths ==
    /\ pc = "load_config"
    /\ result = "none"
    /\ pieces = <<>>
    /\ files = <<>>
    /\ piece_urls = <<>>
    /\ chunk_start = 1
    /\ tasks = <<>>
    /\ fs = <<>>
    /\ combine_i = 1
    /\ file_i = 1
    /\ cursor = 0
    /\ pass = 1
    /\ first_pass = <<>>
    /\ requests = <<>>
    /\ main_pc = "download"
    /\ impl = "main"
    /\ verify_signature = FALSE
    /\ token_signed = TRUE
    /\ tree = {}
    /\ entries = {}
    /\ archive = {}
    /\ main_result = "none"
    /\ latest = NoRelease
    /\ decision = "none"
    /\ created = {}

SliceOutput ==
    /\ \E name \in DescriptorNames :
          created' = created \cup OutputPlaces(name)
    /\ UNCHANGED <<download, main_pc, impl, verify_signature, token_signed,
                   tree, entries, archive, main_result, latest, decision>>

NextPaths == SliceOutput

SpecPaths == InitPaths /\ [][NextPaths]_vars

(***************************************************************************)
(* What the claims are stated with.                                        *)
(***************************************************************************)
\* The payload a digest stands for.
Preimage(d) == CHOOSE p \in Payloads : Sha256(p) = d

\* The verified pieces of a manifest, concatenated in manifest order.
RECURSIVE VerifiedStream(_)
VerifiedStream(ps) ==
    IF ps = <<>> THEN <<>> ELSE Preimage(Head(ps)) \o VerifiedStream(Tail(ps))

\* The sizes of the first n descriptors, summed.
RECURSIVE SumSizes(_, _)
SumSizes(fl, n) == IF n = 0 THEN 0 ELSE SumSizes(fl, n - 1) + fl[n].size

\* The bytes [offset, offset + size) of the stream that descriptor i declares.
DeclaredSlice(fl, i, stream) ==
    SubSeq(stream, SumSizes(fl, i - 1) + 1, SumSizes(fl, i))

StagingName(name) == name = CombinedPath \/ name.ext = "solidpiece"

\* Output names that are pairwise distinct and are no staging names.
ProperNames(fl) ==
    /\ \A i, j \in 1..Len(fl) : fl[i].name = fl[j].name => i = j
    /\ \A i \in 1..Len(fl) : ~StagingName(fl[i].name)

OutputHolds(i) ==
    /\ Exists(files[i].name)
    /\ fs[files[i].name] = DeclaredSlice(files, i, VerifiedStream(pieces))

(***************************************************************************)
(* C1, as claimed: for every manifest, when download_build reports success *)
(* every declared output file exists and holds the bytes of the combined   *)
(* stream at [sum of the earlier sizes, that sum + its size).              *)
(***************************************************************************)
C1_SuccessOutputsAnyManifest ==
    pc = "done" => \A i \in 1..Len(files) : OutputHolds(i)

(***************************************************************************)
(* C1, amended: the same for every manifest whose output names are         *)
(* pairwise distinct and are neither the combined file's name nor a        *)
(* .solidpiece name.                                                       *)
(***************************************************************************)
C1_SuccessOutputs ==
    (pc = "done" /\ ProperNames(files)) => \A i \in 1..Len(files) : OutputHolds(i)

C1_Witness ==
    /\ pc = "done"
    /\ result = "Ok"
    /\ Len(pieces) = 3
    /\ Len(files) = 2
    /\ ProperNames(files)
    /\ files[1].size = 2
    /\ files[2].size = 1
    /\ fs[files[2].name] # fs[files[1].name]
    /\ \A i \in 1..Len(files) : OutputHolds(i)

\* The concatenation of the piece files as they are in f, in the order of urls.
RECURSIVE ConcatFiles(_, _)
ConcatFiles(f, urls) ==
    IF urls = <<>> THEN <<>> ELSE f[Head(urls)] \o ConcatFiles(f, Tail(urls))

(***************************************************************************)
(* C2: when combine_piece_files has returned Ok, the combined file is the  *)
(* concatenation of the piece files in the order of the manifest's         *)
(* digests, which is the concatenation of the verified payloads in that    *)
(* order, whatever the order of the digest values and whatever the order   *)
(* in which the fetches completed.                                         *)
(***************************************************************************)
C2_CombinedInManifestOrder ==
    pc = "extract" =>
        /\ Exists(CombinedPath)
        /\ \A i \in 1..Len(pieces) : Exists(PieceFileName(pieces[i]))
        /\ fs[CombinedPath] = ConcatFiles(fs, PiecesPaths(PieceUrls(pieces)))
        /\ fs[CombinedPath] = VerifiedStream(pieces)

\* Pieces listed against the order of their digest values, over a stale
\* combined file.
C2_Witness ==
    /\ pc = "extract"
    /\ Len(pieces) = 3
    /\ pieces[1] > pieces[2]
    /\ pieces[2] < pieces[3]
    /\ fs[CombinedPath] = Preimage(pieces[1]) \o Preimage(pieces[2]) \o Preimage(pieces[3])
    /\ Name("a", "") \in DOMAIN fs

(***************************************************************************)
(* C3: slicing has one cursor, which starts at 0 and stands after          *)
(* descriptor i-1 when descriptor i is read; the step that writes          *)
(* descriptor i writes exactly the size_i bytes of the combined stream     *)
(* that start there and moves the cursor by size_i.                        *)
(***************************************************************************)
C3_CursorContiguous ==
    /\ [](pc = "extract_loop" => cursor = SumSizes(files, file_i - 1))
    /\ [][(pc = "extract_loop" /\ file_i' = file_i + 1) =>
            /\ fs'[files[file_i].name]
                 = DeclaredSlice(files, file_i, VerifiedStream(pieces))
            /\ cursor' = cursor + files[file_i].size]_vars

C3_Witness ==
    /\ pc = "extract_loop"
    /\ Len(files) = 2
    /\ file_i = 3
    /\ files[1].size = 2
    /\ files[2].size = 1
    /\ cursor = 3
    /\ fs[CombinedPath] = <<0, 1, 0>>
    /\ fs[files[1].name] = <<0, 1>>
    /\ fs[files[2].name] = <<0>>

\* The files of f that are no piece files.
OtherFiles(f) == [p \in {q \in DOMAIN f : q.ext # "solidpiece"} |-> f[p]]

\* Neither reassembly nor slicing has started, and every file that is no
\* piece file is as it was before the run.
NothingAssembled ==
    /\ combine_i = 1
    /\ files = <<>>
    /\ file_i = 1
    /\ cursor = 0
    /\ OtherFiles(fs) \in {OtherFiles(dir) : dir \in InitialDirs}

(***************************************************************************)
(* C4: a piece whose decompressed bytes do not hash to the digest of its   *)
(* address never counts as fetched; the run ends in failure with a         *)
(* checksum mismatch, and reassembly and slicing do not start: no output   *)
(* file is created or written.                                             *)
(***************************************************************************)
C4_MismatchIsFatal ==
    /\ \A i \in DOMAIN tasks :
          tasks[i].st = "ok" => Hex(Sha256(tasks[i].data)) = tasks[i].url.stem
    /\ result = "ChecksumMismatch" => (pc = "failed" /\ NothingAssembled)

C4_Witness ==
    /\ result = "ChecksumMismatch"
    /\ pc = "failed"
    /\ \E i \in DOMAIN tasks :
          /\ tasks[i].st = "err"
          /\ Hex(Sha256(tasks[i].data)) # tasks[i].url.stem
          /\ Exists(tasks[i].url)
          /\ fs[tasks[i].url] = tasks[i].data
    /\ \E i \in DOMAIN tasks : tasks[i].st = "ok"

(***************************************************************************)
(* C5: when the descriptor sizes add up to more than the combined stream   *)
(* holds, slicing does not succeed; it reports a truncated stream at a     *)
(* descriptor for which fewer bytes remain than its size, and from that    *)
(* failure on no file of output_dir is created or changed.                 *)
(***************************************************************************)
C5_TruncatedStream ==
    /\ []((Len(files) > 0 /\ SumSizes(files, Len(files)) > Len(VerifiedStream(pieces)))
            => pc \notin {"cleanup", "done"})
    /\ [](result = "TruncatedStreamError" =>
            /\ pc = "failed"
            /\ file_i \in 1..Len(files)
            /\ SumSizes(files, file_i) > Len(fs[CombinedPath]))
    /\ [][(result = "TruncatedStreamError" \/ result' = "TruncatedStreamError")
            => fs' = fs]_vars

\* The second of two descriptors cannot be satisfied: the first one's file
\* is written, the second one's is not.
C5_Witness ==
    /\ result = "TruncatedStreamError"
    /\ Len(files) = 2
    /\ file_i = 2
    /\ SumSizes(files, 2) > Len(VerifiedStream(pieces))
    /\ files[1].size > 0
    /\ ProperNames(files)
    /\ Exists(files[1].name)
    /\ ~Exists(files[2].name)

(***************************************************************************)
(* C6, as claimed: when a piece request gets a non-success status the run  *)
(* ends in failure, reassembly, slicing and cleanup never run, and the     *)
(* piece file of every task of the batch that had completed is on disk.    *)
(***************************************************************************)
C6_CompletedPiecesRemain ==
    result = "HttpStatusError" =>
        /\ pc = "failed"
        /\ NothingAssembled
        /\ \A i \in DOMAIN tasks : tasks[i].st = "ok" => Exists(tasks[i].url)

\* The same for batches whose digests are pairwise distinct.
C6_DistinctDigestsRemain ==
    (result = "HttpStatusError"
        /\ \A i, j \in DOMAIN tasks : tasks[i].url = tasks[j].url => i = j) =>
        /\ pc = "failed"
        /\ NothingAssembled
        /\ \A i \in DOMAIN tasks :
              tasks[i].st = "ok" =>
                  Exists(tasks[i].url) /\ fs[tasks[i].url] = tasks[i].data

OutputHasSize(i) ==
    /\ Exists(files[i].name)
    /\ Len(fs[files[i].name]) = files[i].size

NoStagingLeft ==
    /\ \A p \in DOMAIN fs : p.ext # "solidpiece"
    /\ ~Exists(CombinedPath)

(***************************************************************************)
(* C7, as claimed: after a run that reports success, for every manifest,   *)
(* output_dir holds no .solidpiece file and no combined file, and every    *)
(* declared output file exists with its declared size.                     *)
(***************************************************************************)
C7_CleanTreeAnyManifest ==
    pc = "done" =>
        /\ NoStagingLeft
        /\ \A i \in 1..Len(files) : OutputHasSize(i)

(***************************************************************************)
(* C7, amended: after a run that reports success output_dir holds no       *)
(* .solidpiece file and no combined file; if the output names of the       *)
(* manifest are pairwise distinct and are no staging names, every declared *)
(* output file exists with its declared size.                              *)
(***************************************************************************)
C7_CleanTree ==
    pc = "done" =>
        /\ NoStagingLeft
        /\ ProperNames(files) => \A i \in 1..Len(files) : OutputHasSize(i)

C7_Witness ==
    /\ pc = "done"
    /\ Len(pieces) = 3
    /\ Len(files) = 2
    /\ ProperNames(files)
    /\ files[1].size = 1
    /\ files[2].size = 2
    /\ NoStagingLeft
    /\ \A i \in 1..Len(files) : OutputHasSize(i)

\* The declared output files are the same in f and g.
SameOutputs(f, g) ==
    \A i \in 1..Len(files) :
        /\ files[i].name \in DOMAIN f
        /\ files[i].name \in DOMAIN g
        /\ f[files[i].name] = g[files[i].name]

SecondPassDone == pass = 2 /\ pc = "cleanup"

\* No declared output file has the name of a piece file of the manifest.
NoPieceNamed ==
    \A i \in 1..Len(files), j \in 1..Len(piece_urls) : files[i].name # piece_urls[j].file

C9_FetchAllOrFail ==
    /\ (pc = "combine" /\ pass = 1) =>
          /\ result = "none"
          /\ tasks = <<>>
          /\ \A i \in 1..Len(pieces) :
                /\ Exists(PieceFileName(pieces[i]))
                /\ Hex(Sha256(fs[PieceFileName(pieces[i])])) = Hex(pieces[i])
    /\ (\E i \in DOMAIN tasks : tasks[i].st = "err") => pc = "failed"

\* A manifest that lists one digest twice and another once.
C9_Witness ==
    /\ pc = "combine"
    /\ Len(pieces) = 3
    /\ pieces[1] = pieces[2]
    /\ pieces[3] # pieces[1]
    /\ \A i \in 1..Len(pieces) : fs[PieceFileName(pieces[i])] = Preimage(pieces[i])

C11_BatchJoinPoint ==
    /\ [](\A j \in 1..(chunk_start - 1) :
            /\ Exists(piece_urls[j].file)
            /\ ChecksumOk(fs[piece_urls[j].file], piece_urls[j].file))
    /\ [][(\E i \in DOMAIN tasks : tasks[i].st = "err") =>
            /\ chunk_start' = chunk_start
            /\ DOMAIN tasks' = DOMAIN tasks
            /\ \A i \in DOMAIN tasks : tasks'[i].url = tasks[i].url]_vars

\* The second chunk has been started, after the first one was joined.
C11_Witness ==
    /\ chunk_start = MAX_CONCURRENT_DOWNLOADS + 1
    /\ Len(tasks) = 1
    /\ tasks[1].st = "send"
    /\ \A j \in 1..MAX_CONCURRENT_DOWNLOADS : Exists(piece_urls[j].file)

(***************************************************************************)
(* C12: at most 8 fetch tasks are in flight, and the tasks of a chunk are  *)
(* 8 consecutive manifest entries, starting at a multiple of 8 (fewer in   *)
(* the last chunk).                                                        *)
(***************************************************************************)
C12_AtMostEightInFlight ==
    /\ Cardinality({i \in DOMAIN tasks : tasks[i].st \in InFlight}) <= 8
    /\ tasks # <<>> =>
        /\ (chunk_start - 1) % 8 = 0
        /\ Len(tasks) = Min(8, Len(piece_urls) - chunk_start + 1)
        /\ \A i \in DOMAIN tasks : tasks[i].url = piece_urls[chunk_start + i - 1].file

\* Eight tasks of a manifest of more than eight pieces are in flight.
C12_Witness ==
    /\ Len(piece_urls) > 8
    /\ Cardinality({i \in DOMAIN tasks : tasks[i].st \in InFlight}) = 8
    /\ pc = "fetch"

(***************************************************************************)
(* C13: a piece that fails verification leaves no file written by this run *)
(* under its name: when a task has ended with a checksum mismatch, its     *)
(* piece file does not exist, or is the file the directory held before the *)
(* run, or holds bytes with the digest of its name.                        *)
(***************************************************************************)
C13_WrittenOnlyIfVerified ==
    \A i \in DOMAIN tasks :
        (tasks[i].st = "err" /\ result = "ChecksumMismatch" /\ Exists(tasks[i].url)) =>
            \/ fs[tasks[i].url] = StaleBytes
            \/ ChecksumOk(fs[tasks[i].url], tasks[i].url)

(***************************************************************************)
(* C14: when combine_piece_files has failed at a piece file, the combined  *)
(* file does not exist, or is the one the directory held before the run,   *)
(* or is the complete concatenation of the piece files.                    *)
(***************************************************************************)
C14_NoPartialCombined ==
    (/\ pc = "failed"
     /\ result = "IoError"
     /\ piece_urls # <<>>
     /\ tasks = <<>>
     /\ chunk_start > Len(piece_urls)
     /\ files = <<>>
     /\ Exists(CombinedPath)) =>
        \/ fs[CombinedPath] = StaleBytes
        \/ fs[CombinedPath] = ConcatFiles(fs, PiecesPaths(piece_urls))

(***************************************************************************)
(* C15: cleanup is reached only when no step has failed and the loops over *)
(* the pieces and over the output files have ended, with every output file *)
(* written; and when the run has failed before cleanup, nothing has been   *)
(* deleted: the piece files of a finished fetch and the combined file of a *)
(* started reassembly are still there.                                     *)
(***************************************************************************)
C15_CleanupOnlyAfterOutputs ==
    /\ pc = "cleanup" =>
        /\ result = "none"
        /\ tasks = <<>>
        /\ chunk_start > Len(piece_urls)
        /\ combine_i > Len(piece_urls)
        /\ file_i > Len(files)
        /\ \A i \in 1..Len(files) :
              StagingName(files[i].name) \/ Exists(files[i].name)
    /\ (pc = "failed" /\ result # "CleanupError") =>
        /\ (tasks = <<>> /\ chunk_start > Len(piece_urls)) =>
              \A j \in 1..Len(piece_urls) : Exists(piece_urls[j].file)
        /\ (combine_i > 1 \/ files # <<>>) => Exists(CombinedPath)

\* Cleanup has deleted a piece file, and the two output files are written.
C15_Witness ==
    /\ pc = "cleanup"
    /\ Len(files) = 2
    /\ ProperNames(files)
    /\ \A i \in 1..Len(files) : OutputHolds(i)
    /\ \E j \in 1..Len(piece_urls) : ~Exists(piece_urls[j].file)

C17_CleanupGoesOn ==
    [][(/\ pc = "cleanup"
        /\ result' = "CleanupError"
        /\ Cardinality(SolidpieceEntries(fs)
                          \cup ({CombinedPath} \cap DOMAIN fs)) > 1) =>
            pc' = "cleanup"]_vars

(***************************************************************************)
(* C18: no interleaving of the tasks of a batch makes a task fail: the     *)
(* file operations of write_piece_to_file (the only source of an I/O error *)
(* of a task) succeed in every task.                                       *)
(***************************************************************************)
C18_NoTaskFailsByInterleaving ==
    \A i \in DOMAIN tasks : tasks[i].st = "err" => result # "IoError"

(***************************************************************************)
(* C19: when fetch and reassembly have ended, every piece file of the      *)
(* manifest holds the payload of its digest and the combined file holds    *)
(* the payloads in manifest order, whatever the directory held before the  *)
(* run: no byte of a file left by an earlier attempt is in them.           *)
(***************************************************************************)
C19_RecreatedFromScratch ==
    (pc = "extract" /\ pass = 1) =>
        /\ \A i \in 1..Len(pieces) :
              LET data == fs[PieceFileName(pieces[i])]
              IN /\ data = Preimage(pieces[i])
                 /\ \A k \in 1..Len(data) : data[k] \notin {StaleBytes[n] : n \in 1..Len(StaleBytes)}
        /\ fs[CombinedPath] = VerifiedStream(pieces)
        /\ \A k \in 1..Len(fs[CombinedPath]) :
              fs[CombinedPath][k] \notin {StaleBytes[n] : n \in 1..Len(StaleBytes)}

\* The directory held files of an earlier attempt (the file "a" is still
\* the old one), among them the piece file of a digest of the manifest.
C19_Witness ==
    /\ pc = "extract"
    /\ pass = 1
    /\ Exists(Name("a", ""))
    /\ fs[Name("a", "")] = StaleBytes
    /\ Len(pieces) = 2
    /\ pieces[2] = Sha256(<<0>>)

\* hex::encode of the decoded bytes, for every entry that base64 decodes
DecodedHex ==
    [e \in {x \in ManifestEntries : Base64Valid(x)} |->
        HexEncode(Base64Decode(e))]

\* The URL the layout gives an entry: the hex is of lowercase hex digits
\* and has the 2 characters the directory is named by.
LayoutUrls ==
    [e \in {x \in DOMAIN DecodedHex :
               /\ Len(DecodedHex[x]) >= 2
               /\ \A k \in 1..Len(DecodedHex[x]) :
                     \E d \in 1..16 : DecodedHex[x][k] = HexDigits[d]} |->
        [base |-> "https://jagex.akamaized.net/direct6",
         repo |-> Repo,
         pieces |-> "pieces",
         dir |-> DecodedHex[e][1] \o DecodedHex[e][2],
         file |-> [stem |-> Str(DecodedHex[e]), ext |-> "solidpiece"]]]

(***************************************************************************)
(* C20: once generate_piece_urls has returned Ok there is one URL for each *)
(* entry of the manifest, in the manifest's order, and the URL of an entry *)
(* is base/repo/pieces/<the first 2 characters of its hex>/<its hex in     *)
(* lowercase>.solidpiece.  When an entry is not base64 or is the base64 of *)
(* no bytes (its hex has no 2 characters), no URL is built, no task is     *)
(* started and no file of the directory is touched.                        *)
(***************************************************************************)
C20_LocateAllOrNothing ==
    /\ Len(piece_urls) \in {0, Len(pieces)}
    /\ pc \in {"fetch", "combine", "combine_loop", "extract", "extract_loop",
                "cleanup", "done"} => Len(piece_urls) = Len(pieces)
    /\ \A i \in 1..Len(piece_urls) :
        /\ pieces[i] \in DOMAIN LayoutUrls
        /\ piece_urls[i] = LayoutUrls[pieces[i]]
    /\ (\E i \in 1..Len(pieces) : pieces[i] \in {0, -1}) =>
        /\ pc \in {"ensure_dir", "generate_urls", "failed"}
        /\ pc = "failed" => result \in {"IoError", "DigestDecodeError"}
        /\ piece_urls = <<>>
        /\ tasks = <<>>
        /\ fs \in InitialDirs

\* Two URLs in the order of the manifest; the directory of a URL is the
\* start of its file name, not its end.
C20_Witness ==
    /\ pc = "fetch"
    /\ pieces = <<6, 2>>
    /\ Len(piece_urls) = 2
    /\ piece_urls[1].file.stem = "0006"
    /\ piece_urls[1].dir = "00"
    /\ piece_urls[2].file.stem = "0002"

\* A manifest whose last entry cannot be located: generate_piece_urls fails.
C20_NoRequestReached ==
    /\ pc = "failed"
    /\ result = "DigestDecodeError"
    /\ Len(pieces) = 2
    /\ pieces[1] = 6
    /\ pieces[2] \in {0, -1}

C24_PhasesInOrder ==
    /\ (pc = "fetch" \/ \E i \in DOMAIN tasks : tasks[i].st \in InFlight) =>
          NothingAssembled
    /\ (combine_i > 1 \/ pc \in {"combine", "combine_loop"}) =>
          (tasks = <<>> /\ chunk_start > Len(piece_urls))
    /\ (pc \in {"extract", "extract_loop", "cleanup", "done"}
            \/ files # <<>> \/ file_i > 1 \/ cursor > 0) =>
          /\ tasks = <<>>
          /\ chunk_start > Len(piece_urls)
          /\ combine_i = Len(piece_urls) + 1
    /\ (pc = "extract" /\ pass = 1) =>
          fs[CombinedPath] = ConcatFiles(fs, PiecesPaths(piece_urls))

\* Slicing is at its second descriptor, after the reassembly of two pieces.
C24_Witness ==
    /\ pc = "extract_loop"
    /\ file_i = 2
    /\ Len(piece_urls) = 2
    /\ combine_i = 3
    /\ tasks = <<>>

(***************************************************************************)
(* C25: a task that has failed at its response (non-success status, body   *)
(* too short, body that does not inflate) has touched no file.  When it is *)
(* the only task, output_dir is as it was before the run; when no other    *)
(* task of the batch has its file name, its piece file is as it was before *)
(* the run: the old file of that name, or no file.                         *)
(***************************************************************************)
C25_FailedResponseTouchesNothing ==
    \A i \in DOMAIN tasks :
        (/\ tasks[i].st = "err"
         /\ result \in {"HttpStatusError", "ShortBodyError", "DecompressionError"}) =>
            /\ Len(tasks) = 1 => fs \in InitialDirs
            /\ (\A j \in DOMAIN tasks : j # i => tasks[j].url # tasks[i].url) =>
                  \E dir \in InitialDirs :
                      /\ OtherFiles(dir) = OtherFiles(fs)
                      /\ tasks[i].url \in DOMAIN dir <=> Exists(tasks[i].url)
                      /\ Exists(tasks[i].url) => fs[tasks[i].url] = dir[tasks[i].url]

\* The request of the second task got a non-success status: the old file of
\* its name is as it was, while the first task has written its file.
C25_Witness ==
    /\ result = "HttpStatusError"
    /\ Len(tasks) = 2
    /\ tasks[2].st = "err"
    /\ tasks[1].url # tasks[2].url
    /\ Exists(tasks[2].url)
    /\ fs[tasks[2].url] = StaleBytes
    /\ tasks[1].st = "ok"

(***************************************************************************)
(* C26: the k-th request of a run is the request for the k-th entry of the *)
(* manifest: no entry is requested twice, and the requests issued are the  *)
(* entries of the chunks started so far, whatever has failed.              *)
(***************************************************************************)
C26_NoRetry ==
    /\ Len(requests) <= Len(piece_urls)
    /\ \A k \in 1..Len(requests) : requests[k] = piece_urls[k].file
    /\ tasks # <<>> => Len(requests) = chunk_start - 1 + Len(tasks)
    /\ tasks = <<>> => Len(requests) = chunk_start - 1

\* A piece failed its checksum after all three requests had been issued.
C26_Witness ==
    /\ pc = "failed"
    /\ result = "ChecksumMismatch"
    /\ Len(piece_urls) = 3
    /\ Len(requests) = 3

(***************************************************************************)
(* The items the message of an error names.  A fetch error is built in     *)
(* download_and_process_single_piece, decompress_piece_data,               *)
(* write_piece_to_file or verify_piece_checksum, with the URL or the file  *)
(* name of the piece as `item`; a slicing error in                         *)
(* extract_files_from_archive, with the name of the descriptor as `item`.  *)
(***************************************************************************)
ErrorItems(err, item) ==
    CASE err = "NetworkError" -> {item}         \* "Failed to send request to {}"
      [] err = "HttpStatusError" -> {item}      \* "HTTP error {}: {}"
      [] err = "BodyReadError" -> {}            \* "Failed to read response bytes"
      [] err = "ShortBodyError" -> {}           \* "Invalid piece data: too short"
      [] err = "DecompressionError" -> {item}   \* "Failed to decompress piece data for {}"
      [] err = "ChecksumMismatch" -> {item}     \* "Checksum mismatch for {}! ..."
      [] err = "IoError" -> {item}              \* "Failed to create file: {}", ...
      [] err = "TruncatedStreamError" -> {item} \* "Failed to read {} bytes for file: {}"
      [] OTHER -> {}

(***************************************************************************)
(* C27: the error of a failed fetch task names the task's piece, and the   *)
(* error of a failed turn of the slicing loop names the descriptor of that *)
(* turn.                                                                   *)
(***************************************************************************)
C27_ErrorNamesItem ==
    /\ \A i \in DOMAIN tasks :
          tasks[i].st = "err" => tasks[i].url \in ErrorItems(result, tasks[i].url)
    /\ (pc = "failed" /\ file_i \in 1..Len(files)
            /\ result \in {"IoError", "TruncatedStreamError"}) =>
          files[file_i].name \in ErrorItems(result, files[file_i].name)

C29_Terminates ==
    /\ <>(pc \in {"done", "failed"})
    /\ [](pc = "fetch" /\ tasks # <<>> => <>(tasks = <<>> \/ pc = "failed"))
    /\ [](pc = "combine" => <>(pc \in {"extract", "failed"}))
    /\ [](pc = "extract" => <>(pc \in {"cleanup", "failed"}))
    /\ [](pc = "cleanup" => <>(pc \in {"done", "failed"}))

\* a run that went through more than one batch step, every loop, and ended
C29_Witness ==
    /\ pc = "done"
    /\ Len(piece_urls) >= 2
    /\ Len(files) >= 2
    /\ Len(requests) = Len(piece_urls)

(***************************************************************************)
(* C22: zip_directory keeps the directory structure of the source tree:    *)
(* when it has returned Ok, every regular file under src_dir, those inside *)
(* subdirectories too, is in the archive under its path relative to        *)
(* src_dir, and no file whose extension is zip is.                         *)
(***************************************************************************)
C22_ZipPreservesTree ==
    main_pc \in {"release", "end"} =>
        \A e \in tree :
            e.kind = "file" =>
                IF e.ext = "zip"
                THEN \A a \in archive : a.name # e.name
                ELSE e.ext # "ZIP" =>
                        \E a \in archive : a.name = e.name /\ a.kind = "file"

(***************************************************************************)
(* C23: the signature of the configuration token is left unverified only   *)
(* in runs whose configuration flag says so: a run whose flag asks for     *)
(* verification does not get past get_config_json with a token whose       *)
(* signature is not valid.                                                 *)
(***************************************************************************)
C23_SkippedOnlyWhenFlagSaysSo ==
    main_pc \notin {"config", "failed"} /\ ~token_signed => ~verify_signature

(***************************************************************************)
(* C28: when the latest release carries the current version as its tag and *)
(* its body does not contain the current checksum, should_create_release   *)
(* decides to create a release, in main.rs and in github.rs, with or       *)
(* without assets; it decides not to create one only when the tag is the   *)
(* version and the body contains the checksum.                             *)
(***************************************************************************)
C28_SameTagNewContentCreates ==
    decision \in {"create", "skip"} =>
        /\ latest.st = "ok" /\ latest.tag_same /\ latest.body # "with"
              => decision = "create"
        /\ decision = "skip"
              => latest.st = "ok" /\ latest.tag_same /\ latest.body = "with"

(***************************************************************************)
(* C31: while extract_files_from_archive slices, the combined file and the *)
(* piece files of the manifest are only read: writing an output file never *)
(* removes, truncates or overwrites one of them while a later descriptor   *)
(* is still to be read, whatever names the manifest gives its outputs.     *)
(***************************************************************************)
C31_SlicingOnlyReadsStaging ==
    [][pc = "extract_loop" /\ file_i < Len(files) =>
          \A p \in {CombinedPath} \cup {PiecesPaths(piece_urls)[i] :
                                           i \in 1..Len(piece_urls)} :
              Exists(p) => p \in DOMAIN fs' /\ fs'[p] = fs[p]]_vars

(***************************************************************************)
(* C33: cleanup_temporary_files deletes only the staging files of this     *)
(* run: every file it removes is a piece file named by a digest of this    *)
(* manifest or the combined file, and is no output the manifest declares.  *)
(***************************************************************************)
C33_CleanupRemovesOnlyThisRun ==
    [][pc = "cleanup" =>
          \A p \in DOMAIN fs \ DOMAIN fs' :
              /\ p \in {CombinedPath} \cup
                        {PieceFileName(pieces[i]) : i \in 1..Len(pieces)}
              /\ \A i \in 1..Len(files) : files[i].name # p]_vars

(***************************************************************************)
(* C34: every byte of the combined file comes from a piece that was        *)
(* fetched and passed verify_piece_checksum in this run: while             *)
(* combine_piece_files reads, no fetch is unfinished, every piece file it  *)
(* reads was requested in this run and holds bytes whose checksum is the   *)
(* digest in its name (not what an earlier run left), and the combined     *)
(* file holds the piece files read so far and nothing else.                *)
(***************************************************************************)
C34_CombinedFromVerifiedPieces ==
    (pc = "combine_loop" /\ pass = 1) =>
        /\ tasks = <<>>
        /\ \A i \in 1..Len(piece_urls) :
              LET path == PiecesPaths(piece_urls)[i]
              IN /\ \E k \in 1..Len(requests) : requests[k] = path
                 /\ Exists(path)
                 /\ Hex(Sha256(fs[path])) = path.stem
                 /\ fs[path] = Preimage(pieces[i])
        /\ fs[CombinedPath] =
              ConcatFiles(fs, SubSeq(PiecesPaths(piece_urls), 1, combine_i - 1))

\* Reassembly has read a piece whose file an earlier run had left in the
\* directory with other bytes.
C34_Witness ==
    /\ pc = "combine_loop"
    /\ combine_i = 3
    /\ pieces = <<Sha256(<<0>>), Sha256(<<1, 0>>)>>
    /\ Name("a", "") \in DOMAIN fs
    /\ fs[Name("a", "")] = StaleBytes
    /\ fs[CombinedPath] = <<0, 1, 0>>

(***************************************************************************)
(* C35: after a successful download, download_files of main.rs ends with a *)
(* result value, Ok or Err, for every tree of outputs the slicer can       *)
(* leave, trees with subdirectories or with files without an extension     *)
(* included: zip_directory never panics.                                   *)
(***************************************************************************)
C35_ZipNeverPanics ==
    impl = "main" => main_result # "panic" /\ main_pc # "panicked"

\* p lies below the directory dir
Below(p, dir) == Len(p) > Len(dir) /\ SubSeq(p, 1, Len(dir)) = dir

(***************************************************************************)
(* C32: every file and every directory that slicing makes lies inside      *)
(* output_dir, whatever name the manifest gives an output: absolute names  *)
(* and names with parent-directory components included.                    *)
(***************************************************************************)
C32_OutputsInsideOutputDir ==
    \A c \in created : Below(c.path, Resolve(OutputDir))

====
